---- MODULE Spec2Model ----
(***************************************************************************)
(* Weighted consistent hashing ring (src/src/consistent_hash.rs):          *)
(* Continuum::new, node_idx, node, node_iter, get_addr, NodeIterator::next. *)
(*                                                                         *)
(* TLC integers are 32-bit signed, so a u32 is held as the pair            *)
(* <<high 16 bits, low 16 bits>>; ordering on u32 is the lexicographic     *)
(* ordering of the pair.  Vectors are 1-based sequences, while the code's  *)
(* indices (node_index, idx) keep their 0-based values.                    *)
(*                                                                         *)
(* sort_unstable leaves the order of points with equal hash unspecified;   *)
(* Continuum_new is therefore the set of the Continuums a call may return. *)
(***************************************************************************)
EXTENDS Integers, Sequences, FiniteSets, TLC

\* ------------------------------------------------------------------ bounds
MaxBuckets == 3         \* nodes in a node list
MaxWeight == 2          \* weight of a bucket
MaxVirtualPoints == 2   \* num_virtual_points
MaxRingLen == 5         \* points pushed by one call of new
MaxAdvances == 6        \* calls of next on one iterator

\* ------------------------------------------------------------- u32 values
\* bitwise exclusive or, four bits at a time
Xor4 ==
    [a \in 0..15, b \in 0..15 |->
        ((a + b) % 2)
        + 2 * (((a \div 2) + (b \div 2)) % 2)
        + 4 * (((a \div 4) + (b \div 4)) % 2)
        + 8 * (((a \div 8) + (b \div 8)) % 2)]

\* exclusive or of two 16-bit values
Xor(a, b) ==
    Xor4[a % 16, b % 16]
    + 16 * Xor4[(a \div 16) % 16, (b \div 16) % 16]
    + 256 * Xor4[(a \div 256) % 16, (b \div 256) % 16]
    + 4096 * Xor4[a \div 4096, b \div 4096]

Xor32(a, b) == <<Xor(a[1], b[1]), Xor(a[2], b[2])>>
Not32(x) == <<65535 - x[1], 65535 - x[2]>>
Shr1(c) == <<c[1] \div 2, (c[1] % 2) * 32768 + (c[2] \div 2)>>
Shr8(c) == <<c[1] \div 256, (c[1] % 256) * 256 + (c[2] \div 256)>>
Less32(a, b) == a[1] < b[1] \/ (a[1] = b[1] /\ a[2] < b[2])

\* u32::to_le_bytes
to_le_bytes(h) == <<h[2] % 256, h[2] \div 256, h[1] % 256, h[1] \div 256>>

\* ------------------------------------------------------------------ CRC32
\* reflected IEEE 802.3 polynomial 0xEDB88320
Poly == <<60856, 33568>>

RECURSIVE TableEntry(_, _)
TableEntry(c, k) ==
    IF k = 0 THEN c
    ELSE TableEntry(IF c[2] % 2 = 1 THEN Xor32(Poly, Shr1(c)) ELSE Shr1(c), k - 1)

CrcTable == [n \in 0..255 |-> TableEntry(<<0, n>>, 8)]

\* one byte of the table-driven update loop
CrcStep(crc, byte) == Xor32(CrcTable[Xor(crc[2] % 256, byte)], Shr8(crc))

\* F(x) with x evaluated first: TLC passes operator arguments unevaluated,
\* and a long fold would otherwise pile them up on its evaluation stack
Strict(F(_), x) == CHOOSE r \in {F(v) : v \in {x}} : TRUE

\* the update loop over the bytes of buf
RECURSIVE CrcBytes(_, _)
CrcBytes(crc, buf) ==
    IF buf = <<>> THEN crc
    ELSE LET Rest(c) == CrcBytes(c, Tail(buf))
         IN  Strict(Rest, CrcStep(crc, Head(buf)))

\* crc32fast::Hasher: new(), update(buf), finalize()
HasherNew == <<0, 0>>
HasherUpdate(state, buf) == Not32(CrcBytes(Not32(state), buf))
HasherFinalize(state) == state

\* crc32fast::hash(buf)
crc32fast_hash(buf) == HasherFinalize(HasherUpdate(HasherNew, buf))

\* ----------------------------------------------------- socket addresses
\* decimal text (ASCII) of a non-negative integer, as `{}` formats u8 / u16
RECURSIVE ToDecimal(_)
ToDecimal(n) ==
    IF n < 10 THEN <<48 + n>>
    ELSE Append(ToDecimal(n \div 10), 48 + (n % 10))

\* Display of an IPv4 address: the four octets in decimal joined by '.'
IpText(ip) ==
    ToDecimal(ip[1]) \o <<46>> \o ToDecimal(ip[2]) \o <<46>>
        \o ToDecimal(ip[3]) \o <<46>> \o ToDecimal(ip[4])

SocketAddr(ip, port) == [ip |-> ip, port |-> port]

\* HOST + NULL BYTE + PORT
hash_bytes(node) == IpText(node.ip) \o <<0>> \o ToDecimal(node.port)

\* node universe: NodeA and NodeB are two different addresses whose identity
\* bytes drive the CRC into the same state, so their point chains coincide
NodeA == SocketAddr(<<3, 1, 6, 1>>, 4)
NodeB == SocketAddr(<<1, 7, 9, 3>>, 28)
NodeC == SocketAddr(<<1, 1, 1, 1>>, 80)
NodeD == SocketAddr(<<2, 2, 2, 2>>, 9)
Nodes == {NodeA, NodeB, NodeC, NodeD}

\* Option<T>: None is the empty sequence, Some(x) the one-element sequence
None == <<>>
Some(x) == <<x>>

\* Bucket::new; weight > 0 is asserted, so only positive weights are drawn
Bucket_new(node, weight) == [node |-> node, weight |-> weight]
Buckets == {Bucket_new(n, w) : n \in Nodes, w \in 1..MaxWeight}

RECURSIVE SeqsUpTo(_, _)
SeqsUpTo(S, n) ==
    IF n = 0 THEN {<<>>}
    ELSE LET shorter == SeqsUpTo(S, n - 1)
         IN  shorter \cup {Append(s, x) : s \in {t \in shorter : Len(t) = n - 1}, x \in S}

BucketLists == SeqsUpTo(Buckets, MaxBuckets)

\* keys handed to node / node_iter:
\*   ""      hashes to 0 (below every point)
\*   "a","b" the keys of tests::consistency_after_adding_host
\*   "IF"    hashes above every point of the node universe (wraparound)
\*   9D 9F 6B 30  hashes exactly to the first point of NodeC
Keys == { <<>>, <<97>>, <<98>>, <<73, 70>>, <<157, 159, 107, 48>> }

KeyHash == [k \in Keys |-> crc32fast_hash(k)]

\* --------------------------------------------------------- Continuum::new
\* the inner loop of new for one bucket: num_points chained hashes
\* (mutant) prev_hash is never updated: every point hashes the initial 0
RECURSIVE ChainHashes_unchained(_, _, _)
ChainHashes_unchained(hasher, prev_hash, n) ==
    IF n = 0 THEN <<>>
    ELSE LET Rest(hash) == <<hash>> \o ChainHashes_unchained(hasher, prev_hash, n - 1)
         IN  Strict(Rest, HasherFinalize(HasherUpdate(hasher, to_le_bytes(prev_hash))))

RECURSIVE ChainHashes(_, _, _)
ChainHashes(hasher, prev_hash, n) ==
    IF n = 0 THEN <<>>
    ELSE LET Rest(hash) == <<hash>> \o ChainHashes(hasher, hash, n - 1)
         IN  Strict(Rest, HasherFinalize(HasherUpdate(hasher, to_le_bytes(prev_hash))))

BucketHashes(node, num_points) ==
    LET Loop(hasher) == ChainHashes(hasher, <<0, 0>>, num_points)
    IN  Strict(Loop, HasherUpdate(HasherNew, hash_bytes(node)))

\* BucketHashes tabulated over the node universe (evaluated once)
BucketHashTable == [node \in Nodes, n \in 0..MaxRingLen |-> BucketHashes(node, n)]

\* (mutant) node_index counted from the end of the node list
RECURSIVE PushPoints_from_end(_, _)
PushPoints_from_end(bs, num_virtual_points) ==
    IF bs = <<>> THEN <<>>
    ELSE LET bucket == Head(bs)
             node_index == Len(bs) - 1
             num_points == num_virtual_points * bucket.weight
             hashes == BucketHashTable[bucket.node, num_points]
         IN  [j \in 1..num_points |->
                 [node_index |-> node_index, hash |-> hashes[j]]]
                 \o PushPoints_from_end(Tail(bs), num_virtual_points)

\* the vector `ring` when the loop over the buckets ends, before the sort
RECURSIVE PushPoints(_, _)
PushPoints(bs, num_virtual_points) ==
    IF bs = <<>> THEN <<>>
    ELSE LET n == Len(bs)
             bucket == bs[n]
             node_index == n - 1
             num_points == num_virtual_points * bucket.weight
             hashes == BucketHashTable[bucket.node, num_points]
         IN  PushPoints(SubSeq(bs, 1, n - 1), num_virtual_points)
                 \o [j \in 1..num_points |->
                        [node_index |-> node_index, hash |-> hashes[j]]]

\* (mutant) Ord for Point compares node_index instead of hash
RECURSIVE SortedPerms_by_node(_, _)
SortedPerms_by_node(v, S) ==
    IF S = {} THEN {<<>>}
    ELSE LET least == {i \in S : \A j \in S : v[j].node_index >= v[i].node_index}
         IN  UNION {{<<v[i]>> \o t : t \in SortedPerms_by_node(v, S \ {i})} : i \in least}

\* slice::sort_unstable with Ord for Point comparing hash only: the result is
\* a permutation of the input ascending by hash; the order of points with
\* equal hash is unspecified, so every such permutation is an outcome
RECURSIVE SortedPerms(_, _)
SortedPerms(v, S) ==
    IF S = {} THEN {<<>>}
    ELSE LET least == {i \in S : \A j \in S : ~Less32(v[j].hash, v[i].hash)}
         IN  UNION {{<<v[i]>> \o t : t \in SortedPerms(v, S \ {i})} : i \in least}

sort_unstable(v) == SortedPerms(v, DOMAIN v)

\* (mutant) no deduplication
dedup_by_nothing(v) == v

\* Vec::dedup_by(|a, b| a.hash == b.hash): drops every element whose hash
\* equals that of the element retained just before it
RECURSIVE dedup_by(_)
dedup_by(v) ==
    IF Len(v) <= 1 THEN v
    ELSE LET kept == dedup_by(SubSeq(v, 1, Len(v) - 1))
             a == v[Len(v)]
             b == kept[Len(kept)]
         IN  IF a.hash = b.hash THEN kept ELSE Append(kept, a)

\* total_weights
RECURSIVE total_weights(_)
total_weights(bs) ==
    IF bs = <<>> THEN 0 ELSE total_weights(Tail(bs)) + Head(bs).weight

\* the node lists and point counts drawn as inputs
Admissible(bs, num_virtual_points) ==
    /\ bs \in BucketLists
    /\ num_virtual_points * total_weights(bs) <= MaxRingLen

EmptyContinuum == [ring |-> <<>>, addrs |-> <<>>]

\* the set of values Continuum::new(buckets, num_virtual_points) can return
Continuum_new(bs, num_virtual_points) ==
    IF bs = <<>> THEN {EmptyContinuum}
    ELSE {[ring |-> dedup_by(s), addrs |-> [i \in 1..Len(bs) |-> bs[i].node]] :
             s \in sort_unstable(PushPoints(bs, num_virtual_points))}

\* ------------------------------------------------------- lookup, iteration
\* slice::binary_search_by(|p| p.hash.cmp(&hash)) on [left, right)
RECURSIVE BinarySearch(_, _, _, _)
BinarySearch(ring, hash, left, right) ==
    IF left >= right THEN [ok |-> FALSE, i |-> left]
    ELSE LET mid == left + ((right - left) \div 2)
             p == ring[mid + 1]
         IN  IF Less32(p.hash, hash) THEN BinarySearch(ring, hash, mid + 1, right)
             ELSE IF Less32(hash, p.hash) THEN BinarySearch(ring, hash, left, mid)
             ELSE [ok |-> TRUE, i |-> mid]

\* (mutant) no wraparound: the insertion point is returned as it is
node_idx_nowrap(c, input) ==
    LET hash == KeyHash[input]
        r == BinarySearch(c.ring, hash, 0, Len(c.ring))
    IN  r.i

node_idx(c, input) ==
    LET hash == KeyHash[input]
        r == BinarySearch(c.ring, hash, 0, Len(c.ring))
    IN  IF r.ok THEN r.i
        ELSE IF r.i = Len(c.ring) THEN 0 ELSE r.i

\* slice::get followed by the map to the address table
node(c, hash_key) ==
    LET i == node_idx(c, hash_key)
    IN  IF i < Len(c.ring) THEN Some(c.addrs[c.ring[i + 1].node_index + 1]) ELSE None

\* (mutant) the cursor moves on without the modulo
get_addr_nowrap(c, point_index) ==
    IF point_index < Len(c.ring)
    THEN [addr |-> Some(c.addrs[c.ring[point_index + 1].node_index + 1]),
          point_index |-> point_index + 1]
    ELSE [addr |-> None, point_index |-> point_index]

\* (mutant) the cursor moves first and the point it lands on is returned
get_addr_move_first(c, point_index) ==
    IF point_index < Len(c.ring)
    THEN LET moved == (point_index + 1) % Len(c.ring)
         IN  [addr |-> Some(c.addrs[c.ring[moved + 1].node_index + 1]),
              point_index |-> moved]
    ELSE [addr |-> None, point_index |-> point_index]

\* (mutant) a missing point is mapped to the default address, not to None
get_addr_default(c, point_index) ==
    IF point_index < Len(c.ring)
    THEN [addr |-> Some(c.addrs[c.ring[point_index + 1].node_index + 1]),
          point_index |-> (point_index + 1) % Len(c.ring)]
    ELSE [addr |-> Some(SocketAddr(<<0, 0, 0, 0>>, 0)), point_index |-> point_index]

\* get_addr(&self, point_index: &mut usize): the returned address and the
\* value left in *point_index
get_addr(c, point_index) ==
    IF point_index < Len(c.ring)
    THEN [addr |-> Some(c.addrs[c.ring[point_index + 1].node_index + 1]),
          point_index |-> (point_index + 1) % Len(c.ring)]
    ELSE [addr |-> None, point_index |-> point_index]

\* ------------------------------------------------------------------ state
VARIABLES
    buckets,             \* the node list handed to Continuum::new
    num_virtual_points,  \* its second argument
    points,              \* the vector `ring` of new before sort and dedup
    cont,                \* the Continuum in use: [ring, addrs]
    prev,                \* Option of the Continuum it replaced, with its node list
    iter,                \* Option of the NodeIterator: [idx, key, start]
    yields               \* what next() returned so far on iter

vars == <<buckets, num_virtual_points, points, cont, prev, iter, yields>>

Init ==
    /\ buckets \in BucketLists
    /\ num_virtual_points \in 1..MaxVirtualPoints
    /\ Admissible(buckets, num_virtual_points)
    /\ points = PushPoints(buckets, num_virtual_points)
    /\ cont \in Continuum_new(buckets, num_virtual_points)
    /\ prev = None
    /\ iter = None
    /\ yields = <<>>

\* Continuum::node_iter(hash_key)
node_iter(hash_key) ==
    /\ iter' = Some([idx |-> node_idx(cont, hash_key), key |-> hash_key,
                     start |-> node_idx(cont, hash_key)])
    /\ yields' = <<>>
    /\ UNCHANGED <<buckets, num_virtual_points, points, cont, prev>>

\* NodeIterator::next
next ==
    /\ iter # None
    /\ Len(yields) < MaxAdvances
    /\ LET r == get_addr(cont, iter[1].idx)
       IN  /\ iter' = Some([iter[1] EXCEPT !.idx = r.point_index])
           /\ yields' = Append(yields, r.addr)
    /\ UNCHANGED <<buckets, num_virtual_points, points, cont, prev>>

Next ==
    \/ \E k \in Keys : node_iter(k)
    \/ next

Spec == Init /\ [][Next]_vars

\* ------------------------------------------------ membership changes
\* A membership change builds a brand-new Continuum from the new node list
\* and replaces the old one (tests::consistency_after_adding_host and
\* tests::node_iter build a second Continuum this way).
Replace(bs) ==
    /\ buckets' = bs
    /\ points' = PushPoints(bs, num_virtual_points)
    /\ cont' \in Continuum_new(bs, num_virtual_points)
    /\ prev' = Some([buckets |-> buckets, cont |-> cont])
    /\ iter' = None
    /\ yields' = <<>>
    /\ UNCHANGED num_virtual_points

\* one more host at the end of the list
add_host(b) ==
    /\ Admissible(Append(buckets, b), num_virtual_points)
    /\ Replace(Append(buckets, b))

RemoveAt(s, i) == SubSeq(s, 1, i - 1) \o SubSeq(s, i + 1, Len(s))

\* the i-th host dropped from the list
drop_host(i) ==
    /\ i \in 1..Len(buckets)
    /\ Replace(RemoveAt(buckets, i))

\* the same list built again
rebuild == Replace(buckets)

NextRebuild ==
    \/ \E b \in Buckets : add_host(b)
    \/ \E i \in 1..MaxBuckets : drop_host(i)
    \/ rebuild

\* Continuum::with_default_points(&[]), the first Continuum of tests::test_empty
InitEmpty ==
    /\ buckets = <<>>
    /\ num_virtual_points \in 1..MaxVirtualPoints
    /\ points = <<>>
    /\ cont \in Continuum_new(<<>>, num_virtual_points)
    /\ prev = None
    /\ iter = None
    /\ yields = <<>>

SpecRebuild == InitEmpty /\ [][NextRebuild]_vars

\* =================================================================
\* Properties
\* =================================================================
RingLen == Len(cont.ring)
HasIter == iter # None

\* the address owning the point at 0-based index i of c.ring
OwnerAt(c, i) == c.addrs[c.ring[i + 1].node_index + 1]

\* 0-based indices of the points of c whose hash is >= h
AtOrAbove(c, h) == {i \in 0..(Len(c.ring) - 1) : ~Less32(c.ring[i + 1].hash, h)}

SetMin(S) == CHOOSE m \in S : \A x \in S : m <= x

\* the index the lookup is specified to resolve to
PrimaryIndex(c, h) == IF AtOrAbove(c, h) = {} THEN 0 ELSE SetMin(AtOrAbove(c, h))

\* C1: on a non-empty ring, lookup(key) is the owner of the first point with
\* hash >= CRC32(key), and of the point at index 0 when there is none.
C1_LookupLowerBound ==
    RingLen > 0 =>
        \A k \in Keys :
            node(cont, k) = Some(OwnerAt(cont, PrimaryIndex(cont, KeyHash[k])))

\* a ring of several points on which one key wraps around to index 0, one
\* key hits a point's hash exactly and one resolves past index 0
C1_Witness ==
    /\ RingLen >= 3
    /\ HasIter
    /\ AtOrAbove(cont, KeyHash[iter[1].key]) = {}
    /\ Len(yields) = 1
    /\ yields[1] = node(cont, iter[1].key)
    /\ yields[1] = Some(OwnerAt(cont, 0))
    /\ \E k \in Keys : \E i \in 1..(RingLen - 1) :
           /\ cont.ring[i + 1].hash = KeyHash[k]
           /\ node_idx(cont, k) = i
    /\ \E k \in Keys : node_idx(cont, k) = RingLen - 1

\* C4: on a non-empty ring every advance yields an address, and after
\* exactly points.length advances the cursor is back at its start.
C4_NeverEndsFullCycle ==
    (HasIter /\ RingLen > 0) =>
        /\ \A j \in 1..Len(yields) : yields[j] # None
        /\ Len(yields) = RingLen => iter[1].idx = iter[1].start

\* a full cycle that started in the middle of a ring of several points
C4_Witness ==
    /\ HasIter
    /\ RingLen >= 3
    /\ iter[1].start > 0
    /\ Len(yields) = RingLen
    /\ iter[1].idx = iter[1].start

\* C5: the cursor starts at the primary lookup index, the first yield is
\* lookup(key), and the k-th yield (k >= 0) is the owner of
\* points[(start + k) mod points.length], the cursor moving one step per
\* advance.
C5_YieldSequence ==
    (HasIter /\ RingLen > 0) =>
        /\ iter[1].start = node_idx(cont, iter[1].key)
        /\ Len(yields) >= 1 => yields[1] = node(cont, iter[1].key)
        /\ \A j \in 1..Len(yields) :
               yields[j] = Some(OwnerAt(cont, (iter[1].start + j - 1) % RingLen))
        /\ iter[1].idx = (iter[1].start + Len(yields)) % RingLen

\* an iterator that yielded two different addresses and wrapped past the
\* end of the ring
C5_Witness ==
    /\ HasIter
    /\ RingLen >= 2
    /\ Len(yields) >= 3
    /\ iter[1].start + Len(yields) > RingLen
    /\ \E i, j \in 1..Len(yields) : yields[i] # yields[j]

\* C6: the ring built from an empty node list has no points and no
\* addresses, every lookup on it is absent and every advance of an iterator
\* on it returns absent.
C6_EmptyRing ==
    buckets = <<>> =>
        /\ cont.ring = <<>>
        /\ cont.addrs = <<>>
        /\ \A k \in Keys : node(cont, k) = None
        /\ \A j \in 1..Len(yields) : yields[j] = None

\* three advances in a row on the empty ring
C6_Witness ==
    /\ buckets = <<>>
    /\ HasIter
    /\ Len(yields) >= 3

\* sum over the node list of weight * num_virtual_points
PointBudget == num_virtual_points * total_weights(buckets)

\* C8: points is strictly ascending by hash, every node_index is a valid
\* index into addresses, and points.length is at most the sum of
\* weight * virtual_points_per_weight.
C8_RingInvariant ==
    /\ \A i \in 1..(RingLen - 1) : Less32(cont.ring[i].hash, cont.ring[i + 1].hash)
    /\ \A i \in 1..RingLen : cont.ring[i].node_index \in 0..(Len(cont.addrs) - 1)
    /\ RingLen <= PointBudget

\* a ring of several points that lost points to hash collisions
C8_Witness ==
    /\ prev # None
    /\ RingLen >= 2
    /\ RingLen < PointBudget
    /\ \E i, j \in 1..RingLen : cont.ring[i].node_index # cont.ring[j].node_index

\* the points pushed for the i-th bucket of the list, in push order
PointsBefore(i) == num_virtual_points * total_weights(SubSeq(buckets, 1, i - 1))
PointsOfBucket(i) ==
    SubSeq(points, PointsBefore(i) + 1,
           PointsBefore(i) + num_virtual_points * buckets[i].weight)

\* the four bytes of a u32, least significant first
LittleEndian4(h) == <<h[2] % 256, h[2] \div 256, h[1] % 256, h[1] \div 256>>

\* every point after the first chains on the one before it
ChainedOnPrevious(i) ==
    LET ps == PointsOfBucket(i)
        id == hash_bytes(buckets[i].node)
    IN  /\ Len(points) = PointBudget
        /\ Len(ps) = buckets[i].weight * num_virtual_points
        /\ \A j \in 1..Len(ps) : ps[j].node_index = i - 1
        /\ \A j \in 2..Len(ps) :
               ps[j].hash = crc32fast_hash(id \o LittleEndian4(ps[j - 1].hash))

\* C9 as stated: w * virtual_points_per_weight points per node, the first
\* hashed from the identity bytes alone, each later one from the identity
\* bytes followed by the little-endian bytes of the previous hash.
C9_FirstPointIdentityOnly ==
    \A i \in 1..Len(buckets) :
        /\ ChainedOnPrevious(i)
        /\ PointsOfBucket(i)[1].hash = crc32fast_hash(hash_bytes(buckets[i].node))

\* C9 amended: the first point is hashed from the identity bytes followed by
\* four zero bytes (the little-endian bytes of the initial prev_hash 0).
C9_ChainFromZero ==
    \A i \in 1..Len(buckets) :
        /\ ChainedOnPrevious(i)
        /\ PointsOfBucket(i)[1].hash =
               crc32fast_hash(hash_bytes(buckets[i].node) \o <<0, 0, 0, 0>>)

\* two nodes, the second of weight 2, whose two points differ
C9_Witness ==
    /\ prev # None
    /\ Len(buckets) = 2
    /\ buckets[1].node # buckets[2].node
    /\ buckets[2].weight = 2
    /\ Len(PointsOfBucket(2)) = 2 * num_virtual_points
    /\ PointsOfBucket(2)[2].hash # PointsOfBucket(2)[1].hash

\* C10 as stated: the cursor of every iterator is an index into points,
\* the iterators of the empty ring included.
C10_CursorInRange ==
    HasIter => (0 <= iter[1].idx /\ iter[1].idx < RingLen)

\* C10 amended: on a non-empty ring the cursor is an index into points; on
\* the empty ring the cursor is 0 and stays 0.
C10_CursorInRangeOrZero ==
    HasIter =>
        IF RingLen > 0 THEN 0 <= iter[1].idx /\ iter[1].idx < RingLen
        ELSE iter[1].idx = 0

\* a cursor that wrapped from the last point to index 0
C10_Witness ==
    /\ HasIter
    /\ RingLen >= 2
    /\ Len(yields) >= 1
    /\ iter[1].idx = 0
    /\ iter[1].start > 0

\* ------------------------------------------- properties of a replacement
Replaced == prev # None
OldBuckets == prev[1].buckets
OldCont == prev[1].cont

\* the replacement added one node at the end of the list
AddedOne ==
    /\ Replaced
    /\ Len(buckets) = Len(OldBuckets) + 1
    /\ SubSeq(buckets, 1, Len(OldBuckets)) = OldBuckets

\* the hashes of the virtual points of the i-th node of bs
HashesOf(bs, i) ==
    LET hs == BucketHashTable[bs[i].node, num_virtual_points * bs[i].weight]
    IN  {hs[j] : j \in 1..Len(hs)}

\* no two nodes of bs with different addresses have a point hash in common
NoCrossAddressCollision(bs) ==
    \A i, j \in 1..Len(bs) :
        bs[i].node # bs[j].node => HashesOf(bs, i) \cap HashesOf(bs, j) = {}

\* no two nodes of bs have a point hash in common
NoCollision(bs) ==
    \A i, j \in 1..Len(bs) :
        i # j => HashesOf(bs, i) \cap HashesOf(bs, j) = {}

\* C2 as stated: after a node n is added, every key resolves to the address
\* it resolved to before or to n's address.
C2_AddMovesOnlyToNew ==
    AddedOne =>
        \A k \in Keys :
            \/ node(cont, k) = node(OldCont, k)
            \/ node(cont, k) = Some(buckets[Len(buckets)].node)

\* C2 amended: the same, provided no two nodes of the old list with
\* different addresses have a virtual point hash in common.
C2_AddMovesOnlyToNewNoCollision ==
    (AddedOne /\ NoCrossAddressCollision(OldBuckets)) => 
        \A k \in Keys :
            \/ node(cont, k) = node(OldCont, k)
            \/ node(cont, k) = Some(buckets[Len(buckets)].node)

\* a node added to two nodes of different addresses: one key moved to the
\* new node, one key stayed where it was
C2_Witness ==
    /\ AddedOne
    /\ Len(OldBuckets) = 2
    /\ OldBuckets[1].node # OldBuckets[2].node
    /\ NoCrossAddressCollision(OldBuckets)
    /\ \E k \in Keys :
           /\ node(cont, k) # node(OldCont, k)
           /\ node(cont, k) = Some(buckets[3].node)
    /\ \E k \in Keys :
           /\ node(cont, k) = node(OldCont, k)
           /\ node(cont, k) # Some(buckets[3].node)

\* the replacement was built from the same list
SameList == Replaced /\ OldBuckets = buckets

RECURSIVE Advances(_, _, _)
Advances(c, idx, n) ==
    IF n = 0 THEN <<>>
    ELSE LET Rest(r) == <<r.addr>> \o Advances(c, r.point_index, n - 1)
         IN  Strict(Rest, get_addr(c, idx))

\* the yields of iterate(k) on c over one full cycle
FullCycle(c, k) == Advances(c, node_idx(c, k), Len(c.ring))

\* a sequence of yields without the yields of address a
WithoutYieldsOf(ys, a) == SelectSeq(ys, LAMBDA y : y # Some(a))

\* the replacement dropped the i-th node of a list of at least two nodes
DroppedOne(i) ==
    /\ Replaced
    /\ Len(OldBuckets) >= 2
    /\ i \in 1..Len(OldBuckets)
    /\ buckets = RemoveAt(OldBuckets, i)

\* C7 as stated: removing a node x leaves, for every key, the full cycle of
\* the old ring with the yields of x removed, in the same order.
C7_DropKeepsFailoverOrder ==
    \A i \in 1..MaxBuckets :
        DroppedOne(i) =>
            \A k \in Keys :
                FullCycle(cont, k)
                    = WithoutYieldsOf(FullCycle(OldCont, k), OldBuckets[i].node)

\* C7 amended: the same, provided no two nodes of the old list have a
\* virtual point hash in common.
C7_DropKeepsFailoverOrderNoCollision ==
    \A i \in 1..MaxBuckets :
        (DroppedOne(i) /\ NoCollision(OldBuckets)) =>
            \A k \in Keys :
                FullCycle(cont, k)
                    = WithoutYieldsOf(FullCycle(OldCont, k), OldBuckets[i].node)

\* a node dropped from three collision-free nodes: the old cycle of some key
\* began with the dropped node and the new cycle still alternates between
\* the two nodes left
C7_Witness ==
    /\ DroppedOne(2)
    /\ Len(OldBuckets) = 3
    /\ NoCollision(OldBuckets)
    /\ \E k \in Keys :
           /\ node(OldCont, k) = Some(OldBuckets[2].node)
           /\ Len(FullCycle(cont, k)) >= 2
           /\ Len(FullCycle(cont, k)) < Len(FullCycle(OldCont, k))
           /\ \E a, b \in 1..Len(FullCycle(cont, k)) :
                  FullCycle(cont, k)[a] # FullCycle(cont, k)[b]

====
